---- MODULE Spec2Model ----
(***************************************************************************)
(* Model of the useZud live-session hook (src/hooks/useZud.ts).            *)
(*                                                                         *)
(* The hook's React state and refs are the variables below.  Every entry   *)
(* point that the JavaScript event loop can run to its next suspension     *)
(* point is one action: start, stop, toggleMicMute, the four session       *)
(* callbacks, the resumption of onopen after getUserMedia, the resumption  *)
(* of onmessage after a tool invocation or after decodeAudioData, the      *)
(* onaudioprocess callback, the 'ended' listener of a playback source and  *)
(* the promise reactions (.then callbacks) registered on the session       *)
(* promise, which run as microtasks before any other entry point.          *)
(*                                                                         *)
(* isMicMutedRef.current is assigned from isMicMuted on every render       *)
(* (lines 121-122), so the variable isMicMuted stands for both.  The       *)
(* connect promise resolves right after the socket's open event; a         *)
(* connection that fails before opening leaves it pending.  The await of   *)
(* decodeAudioData (line 363) and the awaits of the tool invocations are   *)
(* suspension points after which other entry points may run first.         *)
(*                                                                         *)
(* Strings are sequences of one-character strings so that trim() and +=    *)
(* are computed, not assumed.  null is 0 for the numbered references and   *)
(* the string "null" for the error text.                                   *)
(***************************************************************************)
EXTENDS Integers, Sequences, FiniteSets, TLC

\* ---- bounds of the exploration --------------------------------------
MaxSessions == 2      \* connects issued by start()
MaxServerMsgs == 2    \* LiveServerMessages delivered to onmessage
MaxDialogSessions == 1 \* connects issued by start() in SpecDialog and SpecTranscript
MaxFrames == 2        \* onaudioprocess events
MaxClock == 2         \* AudioContext.currentTime values 0..MaxClock
MaxConversations == 2  \* conversations created by handleNewChat
MaxAppMsgs == 3        \* LiveServerMessages delivered to onmessage in SpecApp
MaxHandoverMsgs == 1   \* LiveServerMessages delivered to onmessage in SpecHandover
MaxToolTurnMsgs == 3   \* LiveServerMessages delivered to onmessage in SpecToolTurn
MaxTranscriptMsgs == 4 \* LiveServerMessages delivered to onmessage in SpecTranscript

VARIABLES
    \* React state of the hook (useZud.ts 105-109)
    status, error, messages, isLiveConnected, isMicMuted,
    \* refs of the hook (useZud.ts 111-125)
    aiRef, sessionPromiseRef, inputAudioContextRef, outputAudioContextRef,
    microphoneStreamRef, scriptProcessorRef, nextStartTimeRef, audioSourcesRef,
    currentInputTranscriptionRef, currentOutputTranscriptionRef,
    \* environment: build-time keys, remote sessions, browser resources
    apiKey, youtubeKey, session, microQ, micWait, handlers, sources,
    clock, liveTracks, openCtx, connectedProcs,
    \* React state and ref of App (App.tsx 19-20, 66)
    conversations, currentConversationId, wasLiveConnectedRef,
    \* history variables
    lastOp, nConnects, nServerMsgs, nFrames, realtimeLog, toolLog, schedLog,
    resets, interrupts, lastTurnMark, deltas

vars == << status, error, messages, isLiveConnected, isMicMuted,
           aiRef, sessionPromiseRef, inputAudioContextRef, outputAudioContextRef,
           microphoneStreamRef, scriptProcessorRef, nextStartTimeRef, audioSourcesRef,
           currentInputTranscriptionRef, currentOutputTranscriptionRef,
           apiKey, youtubeKey, session, microQ, micWait, handlers, sources,
           clock, liveTracks, openCtx, connectedProcs,
           lastOp, nConnects, nServerMsgs, nFrames, realtimeLog, toolLog, schedLog,
           resets, interrupts, lastTurnMark, deltas,
           conversations, currentConversationId, wasLiveConnectedRef >>

\* The whole state as one record, so that the body of a handler is a function
\* from state to state and handlers that call stop() can be composed.
Cur ==
    [ status |-> status, error |-> error, messages |-> messages,
      isLiveConnected |-> isLiveConnected, isMicMuted |-> isMicMuted,
      aiRef |-> aiRef, sessionPromiseRef |-> sessionPromiseRef,
      inputAudioContextRef |-> inputAudioContextRef,
      outputAudioContextRef |-> outputAudioContextRef,
      microphoneStreamRef |-> microphoneStreamRef,
      scriptProcessorRef |-> scriptProcessorRef,
      nextStartTimeRef |-> nextStartTimeRef, audioSourcesRef |-> audioSourcesRef,
      currentInputTranscriptionRef |-> currentInputTranscriptionRef,
      currentOutputTranscriptionRef |-> currentOutputTranscriptionRef,
      apiKey |-> apiKey, youtubeKey |-> youtubeKey, session |-> session,
      microQ |-> microQ, micWait |-> micWait, handlers |-> handlers,
      sources |-> sources, clock |-> clock, liveTracks |-> liveTracks,
      openCtx |-> openCtx, connectedProcs |-> connectedProcs,
      lastOp |-> lastOp, nConnects |-> nConnects, nServerMsgs |-> nServerMsgs,
      nFrames |-> nFrames, realtimeLog |-> realtimeLog, toolLog |-> toolLog,
      schedLog |-> schedLog, resets |-> resets, interrupts |-> interrupts,
      lastTurnMark |-> lastTurnMark, deltas |-> deltas,
      conversations |-> conversations,
      currentConversationId |-> currentConversationId,
      wasLiveConnectedRef |-> wasLiveConnectedRef ]

Sessions == 1..MaxSessions

Max2(a, b) == IF a >= b THEN a ELSE b

\* ---- strings -----------------------------------------------------------
RECURSIVE TrimLeft(_)
TrimLeft(s) == IF s # << >> /\ Head(s) = " " THEN TrimLeft(Tail(s)) ELSE s

RECURSIVE TrimRight(_)
TrimRight(s) ==
    IF s # << >> /\ s[Len(s)] = " " THEN TrimRight(SubSeq(s, 1, Len(s) - 1)) ELSE s

\* String.prototype.trim
Trim_LeftOnly(s) == TrimLeft(s)

Trim(s) == TrimRight(TrimLeft(s))

\* ---- messages ----------------------------------------------------------
TextPart(c) == [type |-> "text", content |-> c, items |-> << >>]
ImagePart(alt) == [type |-> "image", content |-> alt, items |-> << >>]
SourcePart(items) == [type |-> "sources", content |-> << >>, items |-> items]
YouTubePart(videos) == [type |-> "youtube", content |-> << >>, items |-> videos]

\* addMessage: setMessages(prev => [...prev, message]).  by is the session
\* whose closure made the call, kind the call site, seq the arrival number of
\* the server message being handled (0 outside onmessage) and call the id of
\* the function call being handled (0 outside the loop over the batch).
addMessageAt(st, speaker, parts, by, kind, seq, call) ==
    [st EXCEPT !.messages =
        Append(@, [speaker |-> speaker, parts |-> parts, by |-> by, kind |-> kind,
                   seq |-> seq, call |-> call])]

addMessage_Dropped(st, speaker, parts, by, kind) == st

addMessage(st, speaker, parts, by, kind) ==
    addMessageAt(st, speaker, parts, by, kind, 0, 0)

\* ---- App: saving a session into its conversation (App.tsx 69-100) -------------
ConvIds == 1..MaxConversations

NewConversationTitle == <<"N">>
ImageQueryTitle == <<"Q">>

NoConversation == [exists |-> FALSE, title |-> << >>, messages |-> << >>]

FirstUser(msgs) ==
    msgs[CHOOSE i \in DOMAIN msgs :
            /\ msgs[i].speaker = "user"
            /\ \A j \in DOMAIN msgs : msgs[j].speaker = "user" => i <= j]

\* firstUserMessage.parts.find(p => p.type === 'text')?.content || 'Image Query'
FirstUserText(m) ==
    LET texts == SelectSeq(m.parts, LAMBDA q : q.type = "text")
    IN  IF texts # << >> /\ texts[1].content # << >> THEN texts[1].content
        ELSE ImageQueryTitle

\* one run of the effect
saveEffectOnce(st) ==
    IF /\ st.wasLiveConnectedRef
       /\ ~st.isLiveConnected
       /\ Len(st.messages) > 0
       /\ st.currentConversationId # 0
    THEN IF \A i \in DOMAIN st.messages : st.messages[i].speaker # "user"
         THEN [st EXCEPT !.messages = << >>]
         ELSE LET c == st.currentConversationId
                  old == st.conversations[c]
              IN  [st EXCEPT
                     !.conversations[c] =
                        [old EXCEPT !.title = IF old.title = NewConversationTitle
                                              THEN FirstUserText(FirstUser(st.messages))
                                              ELSE old.title,
                                    !.messages = old.messages \o st.messages],
                     !.messages = << >>,
                     !.wasLiveConnectedRef = st.isLiveConnected]
    ELSE [st EXCEPT !.wasLiveConnectedRef = st.isLiveConnected]

\* The state updates of a handler are rendered when it returns, and the effect
\* runs after every render that changed one of its dependencies; a run that
\* clears the session messages causes one more render and run.
Render(st) == saveEffectOnce(saveEffectOnce(st))

\* the effect touches the session messages, the conversations and its own ref
Commit(after) ==
    LET r == Render(after) IN
    /\ status' = after.status
    /\ error' = after.error
    /\ messages' = r.messages
    /\ isLiveConnected' = after.isLiveConnected
    /\ isMicMuted' = after.isMicMuted
    /\ aiRef' = after.aiRef
    /\ sessionPromiseRef' = after.sessionPromiseRef
    /\ inputAudioContextRef' = after.inputAudioContextRef
    /\ outputAudioContextRef' = after.outputAudioContextRef
    /\ microphoneStreamRef' = after.microphoneStreamRef
    /\ scriptProcessorRef' = after.scriptProcessorRef
    /\ nextStartTimeRef' = after.nextStartTimeRef
    /\ audioSourcesRef' = after.audioSourcesRef
    /\ currentInputTranscriptionRef' = after.currentInputTranscriptionRef
    /\ currentOutputTranscriptionRef' = after.currentOutputTranscriptionRef
    /\ apiKey' = after.apiKey
    /\ youtubeKey' = after.youtubeKey
    /\ session' = after.session
    /\ microQ' = after.microQ
    /\ micWait' = after.micWait
    /\ handlers' = after.handlers
    /\ sources' = after.sources
    /\ clock' = after.clock
    /\ liveTracks' = after.liveTracks
    /\ openCtx' = after.openCtx
    /\ connectedProcs' = after.connectedProcs
    /\ lastOp' = after.lastOp
    /\ nConnects' = after.nConnects
    /\ nServerMsgs' = after.nServerMsgs
    /\ nFrames' = after.nFrames
    /\ realtimeLog' = after.realtimeLog
    /\ toolLog' = after.toolLog
    /\ schedLog' = after.schedLog
    /\ resets' = after.resets
    /\ interrupts' = after.interrupts
    /\ lastTurnMark' = after.lastTurnMark
    /\ deltas' = after.deltas
    /\ conversations' = r.conversations
    /\ currentConversationId' = after.currentConversationId
    /\ wasLiveConnectedRef' = r.wasLiveConnectedRef

\* sessionPromiseRef.current?.then(cb): nothing when the slot is null, a
\* microtask when the promise is already resolved, else a reaction kept on
\* the pending promise.
\* ---- the transcription deltas the server has sent --------------------------
\* history: the input and output deltas received since the last turn boundary
\* (start() or a turn completion); done marks that the turn was finalized
NoDeltas == [in |-> << >>, out |-> << >>, done |-> FALSE]

Received(d, m) ==
    LET base == IF d.done THEN NoDeltas ELSE d
    IN  [in |-> base.in \o (IF m.hasIn THEN m.inT ELSE << >>),
         out |-> base.out \o (IF m.hasOut THEN m.outT ELSE << >>),
         done |-> FALSE]

\* ---- the session promise ------------------------------------------------
Then(st, cb) ==
    LET s == st.sessionPromiseRef IN
    IF s = 0 THEN st
    ELSE IF st.session[s].resolved
         THEN [st EXCEPT !.microQ = Append(@, [cb EXCEPT !.s = s])]
         ELSE [st EXCEPT !.session[s].thens = Append(@, [cb EXCEPT !.s = s])]

Resp(kind, text) == [kind |-> kind, text |-> text]

NoResp == Resp("none", << >>)

Callback(k, f, resp) == [k |-> k, s |-> 0, f |-> f, resp |-> resp]

\* ---- teardown -----------------------------------------------------------
stopAudioPlayback(st) ==
    IF st.outputAudioContextRef # 0
    THEN [st EXCEPT
            !.sources = [x \in DOMAIN @ |->
                IF x \in st.audioSourcesRef THEN [@[x] EXCEPT !.state = "stopped"] ELSE @[x]],
            !.audioSourcesRef = {},
            !.nextStartTimeRef = 0,
            !.resets = @ + 1]
    ELSE st

stop_KeepSlot(st) ==
    LET a == [Then(st, Callback("close", 0, NoResp)) EXCEPT
                 !.liveTracks = @ \ {st.microphoneStreamRef},
                 !.microphoneStreamRef = 0,
                 !.connectedProcs = @ \ {st.scriptProcessorRef},
                 !.scriptProcessorRef = 0,
                 !.openCtx = @ \ {<<"in", st.inputAudioContextRef>>},
                 !.inputAudioContextRef = 0]
        b == stopAudioPlayback(a)
    IN  [b EXCEPT
            !.openCtx = @ \ {<<"out", st.outputAudioContextRef>>},
            !.outputAudioContextRef = 0,
            !.isLiveConnected = FALSE,
            !.status = "Ready",
            !.error = "null"]

stop(st) ==
    LET a == [Then(st, Callback("close", 0, NoResp)) EXCEPT
                 !.sessionPromiseRef = 0,
                 !.liveTracks = @ \ {st.microphoneStreamRef},
                 !.microphoneStreamRef = 0,
                 !.connectedProcs = @ \ {st.scriptProcessorRef},
                 !.scriptProcessorRef = 0,
                 !.openCtx = @ \ {<<"in", st.inputAudioContextRef>>},
                 !.inputAudioContextRef = 0]
        b == stopAudioPlayback(a)
    IN  [b EXCEPT
            !.openCtx = @ \ {<<"out", st.outputAudioContextRef>>},
            !.outputAudioContextRef = 0,
            !.isLiveConnected = FALSE,
            !.status = "Ready",
            !.error = "null"]

\* stop() of the hook variant src/unnamed/part_001 (lines 81-105): the audio
\* contexts are tested with `ref.current?.state !== 'closed'`, which is true
\* for a null ref, and close() is then called on null: a TypeError leaves the
\* function at that line.
stopPart001(st) ==
    LET a == [Then(st, Callback("close", 0, NoResp)) EXCEPT
                 !.sessionPromiseRef = 0,
                 !.liveTracks = @ \ {st.microphoneStreamRef},
                 !.microphoneStreamRef = 0,
                 !.connectedProcs = @ \ {st.scriptProcessorRef},
                 !.scriptProcessorRef = 0]
    IN  IF st.inputAudioContextRef = 0
        THEN [a EXCEPT !.lastOp = "stopThrew"]
        ELSE LET b == [a EXCEPT !.openCtx = @ \ {<<"in", st.inputAudioContextRef>>},
                                !.inputAudioContextRef = 0]
                 c == stopAudioPlayback(b)
             IN  IF st.outputAudioContextRef = 0
                 THEN [c EXCEPT !.lastOp = "stopThrew"]
                 ELSE [c EXCEPT
                         !.openCtx = @ \ {<<"out", st.outputAudioContextRef>>},
                         !.outputAudioContextRef = 0,
                         !.isLiveConnected = FALSE,
                         !.status = "Ready",
                         !.error = "null"]

\* ---- start ----------------------------------------------------------------
NewSession(image) ==
    [state |-> "connecting", image |-> image, resolved |-> FALSE,
     thens |-> << >>, closeCalls |-> 0, errored |-> FALSE]

startBody_KeyUnchecked(st, image) ==
    LET a == [st EXCEPT !.status = "Connecting...", !.error = "null",
                        !.messages = << >>,
                        !.currentInputTranscriptionRef = << >>,
                        !.currentOutputTranscriptionRef = << >>,
                        !.deltas = NoDeltas]
        n == st.nConnects + 1
        b == [a EXCEPT !.aiRef = TRUE,
                       !.outputAudioContextRef = n,
                       !.openCtx = @ \cup {<<"out", n>>},
                       !.clock = 0,
                       !.resets = @ + 1]
        c == IF image
             THEN addMessage(b, "user", <<ImagePart(<< >>)>>, n, "leading")
             ELSE b
    IN  [c EXCEPT !.session[n] = NewSession(image),
                  !.nConnects = n,
                  !.sessionPromiseRef = n]

startBody(st, image) ==
    LET a == [st EXCEPT !.status = "Connecting...", !.error = "null",
                        !.messages = << >>,
                        !.currentInputTranscriptionRef = << >>,
                        !.currentOutputTranscriptionRef = << >>,
                        !.deltas = NoDeltas]
    IN  IF ~st.apiKey
        THEN [a EXCEPT !.error = "Failed to start session", !.status = "Error",
                       !.isLiveConnected = FALSE]
        ELSE LET n == st.nConnects + 1
                 b == [a EXCEPT !.aiRef = TRUE,
                                !.outputAudioContextRef = n,
                                !.openCtx = @ \cup {<<"out", n>>},
                                !.clock = 0,
                                !.resets = @ + 1]
                 c == IF image
                      THEN addMessage(b, "user", <<ImagePart(<< >>)>>, n, "leading")
                      ELSE b
             IN  [c EXCEPT !.session[n] = NewSession(image),
                           !.nConnects = n,
                           !.sessionPromiseRef = n]

start_NoGuard(st, image) == startBody(st, image)

start(st, image) ==
    IF st.isLiveConnected THEN st ELSE startBody(st, image)

\* ---- initial state ---------------------------------------------------------
Init ==
    /\ status = "Ready"
    /\ error = "null"
    /\ messages = << >>
    /\ isLiveConnected = FALSE
    /\ isMicMuted = FALSE
    /\ aiRef = FALSE
    /\ sessionPromiseRef = 0
    /\ inputAudioContextRef = 0
    /\ outputAudioContextRef = 0
    /\ microphoneStreamRef = 0
    /\ scriptProcessorRef = 0
    /\ nextStartTimeRef = 0
    /\ audioSourcesRef = {}
    /\ currentInputTranscriptionRef = << >>
    /\ currentOutputTranscriptionRef = << >>
    /\ apiKey \in BOOLEAN
    /\ youtubeKey \in BOOLEAN
    /\ session = [s \in Sessions |->
                    [state |-> "unused", image |-> FALSE, resolved |-> FALSE,
                     thens |-> << >>, closeCalls |-> 0, errored |-> FALSE]]
    /\ microQ = << >>
    /\ micWait = {}
    /\ handlers = {}
    /\ sources = << >>
    /\ clock = 0
    /\ liveTracks = {}
    /\ openCtx = {}
    /\ connectedProcs = {}
    /\ lastOp = "init"
    /\ nConnects = 0
    /\ nServerMsgs = 0
    /\ nFrames = 0
    /\ realtimeLog = << >>
    /\ toolLog = << >>
    /\ schedLog = << >>
    /\ resets = 0
    /\ interrupts = 0
    /\ lastTurnMark = 0
    /\ deltas = NoDeltas
    /\ conversations = [c \in ConvIds |-> NoConversation]
    /\ currentConversationId = 0
    /\ wasLiveConnectedRef = FALSE

\* No entry point runs while a microtask is queued.
Idle == microQ = << >>

Op(st, name) == [st EXCEPT !.lastOp = name]

\* ---- actions: the public API ----------------------------------------------
Start(images, maxConnects) ==
    /\ Idle
    /\ isLiveConnected \/ ~apiKey \/ nConnects < maxConnects
    /\ \E image \in images : Commit(Op(start(Cur, image), "start"))

Stop ==
    /\ Idle
    /\ Commit(Op(stop(Cur), "stop"))

\* ---- actions: the handlers of App (App.tsx 103-123) ---------------------------
handleNewChat(st, newId) ==
    LET a == IF st.isLiveConnected THEN stop(st) ELSE st
    IN  [a EXCEPT !.conversations[newId] =
                     [exists |-> TRUE, title |-> NewConversationTitle, messages |-> << >>],
                  !.currentConversationId = newId,
                  !.messages = << >>]

handleSelectConversation(st, id) ==
    LET a == IF st.isLiveConnected THEN stop(st) ELSE st
    IN  [a EXCEPT !.currentConversationId = id,
                  !.messages = << >>]

\* the id of a new conversation is Date.now(): larger than every id in use
HandleNewChat ==
    /\ Idle
    /\ \E newId \in ConvIds :
          /\ ~conversations[newId].exists
          /\ \A c \in ConvIds : conversations[c].exists => c < newId
          /\ Commit(Op(handleNewChat(Cur, newId), "handleNewChat"))

HandleSelectConversation ==
    /\ Idle
    /\ \E id \in ConvIds :
          /\ conversations[id].exists
          /\ Commit(Op(handleSelectConversation(Cur, id), "handleSelectConversation"))

\* toggleMicMute (useZud.ts 401)
toggleMicMute_WhenConnected(st) ==
    IF st.isLiveConnected THEN [st EXCEPT !.isMicMuted = ~@] ELSE st

toggleMicMute(st) == [st EXCEPT !.isMicMuted = ~@]

ToggleMicMute ==
    /\ Idle
    /\ Commit(Op(toggleMicMute(Cur), "toggleMicMute"))


\* ---- onopen (useZud.ts 222-253) -----------------------------------------
\* The socket opened: the callback runs up to the await of getUserMedia, then
\* the connect promise resolves and its pending reactions become microtasks.
onopenBody(st, s) ==
    [st EXCEPT !.isLiveConnected = TRUE,
               !.status = "Listening...",
               !.micWait = @ \cup {s},
               !.session[s].state = "open",
               !.session[s].resolved = TRUE,
               !.session[s].thens = << >>,
               !.microQ = @ \o st.session[s].thens]

\* getUserMedia settled: the rest of onopen's try block, or its catch.
micResumeBody(st, s, ok) ==
    LET a == [st EXCEPT !.micWait = @ \ {s}] IN
    IF ok
    THEN [a EXCEPT !.microphoneStreamRef = s,
                   !.liveTracks = @ \cup {s},
                   !.inputAudioContextRef = s,
                   !.openCtx = @ \cup {<<"in", s>>},
                   !.scriptProcessorRef = s,
                   !.connectedProcs = @ \cup {s}]
    ELSE stop([a EXCEPT !.error = "Microphone error", !.status = "Error"])

\* onaudioprocess of processor p (useZud.ts 236-241)
onaudioprocess(st, p) ==
    LET f == st.nFrames + 1
        a == [st EXCEPT !.nFrames = f,
                        !.realtimeLog = Append(@, [ev |-> "capture", f |-> f, s |-> 0,
                                                   muted |-> st.isMicMuted])]
    IN  IF st.isMicMuted THEN a
        ELSE Then(a, Callback("sendRealtimeInput", f, NoResp))

\* onerror (useZud.ts 380-385) and onclose (386)
onerrorBody_NoStop(st, s) ==
    [st EXCEPT !.session[s].errored = TRUE,
               !.error = "Session error", !.status = "Error"]

onerrorBody(st, s) ==
    stop([st EXCEPT !.session[s].errored = TRUE,
                    !.error = "Session error", !.status = "Error"])

oncloseBody(st, s) ==
    stop([st EXCEPT !.session[s].state = "closed"])

\* A reaction registered with .then on the session promise runs.
runReaction(st) ==
    LET cb == Head(st.microQ)
        a == [st EXCEPT !.microQ = Tail(@)]
    IN  CASE cb.k = "close" ->
               [a EXCEPT !.session[cb.s].closeCalls = @ + 1,
                         !.session[cb.s].state = IF @ = "open" THEN "closing" ELSE @]
          [] cb.k = "sendRealtimeInput" ->
               [a EXCEPT !.realtimeLog = Append(@, [ev |-> "send", f |-> cb.f, s |-> cb.s,
                                                    muted |-> st.isMicMuted])]
          [] cb.k = "sendToolResponse" ->
               [a EXCEPT !.toolLog = Append(@, [ev |-> "response", s |-> cb.s, call |-> cb.f,
                                                resp |-> cb.resp,
                                                on |-> st.session[cb.s].state,
                                                out |-> [kind |-> "none", text |-> << >>,
                                                         chunks |-> << >>, videos |-> 0]])]

OnOpen(s) ==
    /\ Idle
    /\ session[s].state = "connecting"
    /\ ~session[s].errored
    /\ Commit(Op(onopenBody(Cur, s), "onopen"))

MicResume(s) ==
    /\ Idle
    /\ s \in micWait
    /\ \E ok \in BOOLEAN : Commit(Op(micResumeBody(Cur, s, ok), IF ok THEN "micGranted" ELSE "micDenied"))

\* the variant's onopen after getUserMedia (part_001 166-195): as in the hook,
\* with the variant's stop() in the catch block
micResumeBodyPart001(st, s, ok) ==
    IF ok THEN micResumeBody(st, s, TRUE)
    ELSE stopPart001([st EXCEPT !.micWait = @ \ {s},
                                !.error = "Microphone error", !.status = "Error"])

MicResumePart001(s) ==
    /\ Idle
    /\ s \in micWait
    /\ \E ok \in BOOLEAN :
          Commit(micResumeBodyPart001(Op(Cur, IF ok THEN "micGranted" ELSE "micDenied"), s, ok))

StopPart001 ==
    /\ Idle
    /\ Commit(stopPart001(Op(Cur, "stop")))

AudioProcess(p) ==
    /\ Idle
    /\ p \in connectedProcs
    /\ <<"in", p>> \in openCtx
    /\ nFrames < MaxFrames
    /\ Commit(Op(onaudioprocess(Cur, p), "onaudioprocess"))

OnError(s) ==
    /\ Idle
    /\ session[s].state \in {"connecting", "open", "closing"}
    /\ ~session[s].errored
    /\ Commit(Op(onerrorBody(Cur, s), "onerror"))

OnClose(s) ==
    /\ Idle
    /\ session[s].state \in {"connecting", "open", "closing"}
    /\ Commit(Op(oncloseBody(Cur, s), "onclose"))

RunReaction ==
    /\ microQ # << >>
    /\ Commit(Op(runReaction(Cur), "reaction"))


\* ---- server messages -------------------------------------------------------
\* A LiveServerMessage: optional transcription deltas, an optional tool-call
\* batch, the turnComplete and interrupted markers, and the duration of the
\* audio fragment of modelTurn.parts[0] (0: no inline audio).
Msg(hasOut, outT, hasIn, inT, calls, tc, audio, intr) ==
    [hasOut |-> hasOut, outT |-> outT, hasIn |-> hasIn, inT |-> inT,
     calls |-> calls, turnComplete |-> tc, audio |-> audio, interrupted |-> intr]

Plain == Msg(FALSE, << >>, FALSE, << >>, << >>, FALSE, 0, FALSE)

Call(id, name) == [id |-> id, name |-> name]

ToolNames == {"generateImage", "googleSearch", "youtubeSearch", "other"}

TranscriptMsgs ==
    { [Plain EXCEPT !.hasIn = TRUE, !.inT = <<"a">>],
      [Plain EXCEPT !.hasIn = TRUE, !.inT = <<" ">>],
      [Plain EXCEPT !.hasOut = TRUE, !.outT = <<"b">>],
      [Plain EXCEPT !.hasOut = TRUE, !.outT = <<" ">>],
      [Plain EXCEPT !.hasOut = TRUE, !.outT = <<"b">>, !.hasIn = TRUE, !.inT = <<"a">>],
      [Plain EXCEPT !.turnComplete = TRUE] }

\* transcription deltas with white space around them, and the end of a turn
TurnMsgs ==
    { [Plain EXCEPT !.hasIn = TRUE, !.inT = <<" ", "a", " ">>],
      [Plain EXCEPT !.hasIn = TRUE, !.inT = <<" ">>],
      [Plain EXCEPT !.hasOut = TRUE, !.outT = <<"b", " ">>],
      [Plain EXCEPT !.hasOut = TRUE, !.outT = <<" ">>],
      [Plain EXCEPT !.turnComplete = TRUE] }

\* what a short spoken exchange delivers
AppMsgs ==
    { [Plain EXCEPT !.hasIn = TRUE, !.inT = <<"a">>],
      [Plain EXCEPT !.hasOut = TRUE, !.outT = <<"b">>],
      [Plain EXCEPT !.turnComplete = TRUE] }

\* a spoken turn during which the model calls a tool
ToolTurnMsgs ==
    { [Plain EXCEPT !.hasIn = TRUE, !.inT = <<"a">>],
      [Plain EXCEPT !.calls = <<Call(1, "generateImage")>>],
      [Plain EXCEPT !.turnComplete = TRUE] }

\* one tool-call batch with a single call
HandoverMsgs == { [Plain EXCEPT !.calls = <<Call(1, "generateImage")>>] }

ToolMsgs ==
    { [Plain EXCEPT !.calls = <<Call(1, n)>>] : n \in ToolNames }
    \cup { [Plain EXCEPT !.calls = <<Call(1, "generateImage"), Call(2, "youtubeSearch")>>],
           [Plain EXCEPT !.calls = <<Call(1, "other"), Call(2, "googleSearch")>>] }

AudioMsgs ==
    { [Plain EXCEPT !.audio = 1],
      [Plain EXCEPT !.audio = 2],
      [Plain EXCEPT !.interrupted = TRUE],
      [Plain EXCEPT !.audio = 1, !.interrupted = TRUE],
      [Plain EXCEPT !.audio = 1, !.turnComplete = TRUE] }

ServerMessages == TranscriptMsgs \cup ToolMsgs \cup AudioMsgs

DialogMsgs == TranscriptMsgs \cup ToolMsgs

\* ---- outcomes of the external capabilities ---------------------------------
GoodChunk == [uri |-> <<"u">>, title |-> <<"t">>]
NoTitleChunk == [uri |-> <<"u">>, title |-> << >>]

Outcome(kind, text, chunks, videos) ==
    [kind |-> kind, text |-> text, chunks |-> chunks, videos |-> videos]

Throws == Outcome("throw", << >>, << >>, 0)

NoOutcome == Outcome("none", << >>, << >>, 0)

\* what the capabilities may answer
ImageOutcomes == { Outcome("ok", << >>, << >>, 0), Throws }

GoogleTexts == { <<" ">>, <<" ", "r">> }

GoogleChunks == { <<NoTitleChunk>>, <<NoTitleChunk, GoodChunk>> }

GoogleOutcomes ==
    { Outcome("ok", t, c, 0) : t \in GoogleTexts, c \in GoogleChunks } \cup { Throws }

YouTubeOutcomes == { Outcome("ok", << >>, << >>, 0), Outcome("ok", << >>, << >>, 2), Throws }

KeylessOutcomes == { Throws }

Outcomes(st, name) ==
    CASE name = "generateImage" -> ImageOutcomes
      [] name = "googleSearch" -> GoogleOutcomes
      [] name = "youtubeSearch" -> IF st.youtubeKey THEN YouTubeOutcomes ELSE KeylessOutcomes
      [] OTHER -> {}

\* fixed texts of the hook
HandoffText == <<"H">>
GoogleFallbackText == <<"G">>
GoogleFoundText == <<"F">>
YouTubeFallbackText == <<"Y">>
YouTubeSummaryText == <<"S">>
YouTubeCountText == <<"N">>
ImageOkText == <<"I">>
ErrorText == <<"E">>

\* groundingChunks?.map(chunk => chunk.web).filter(web => web?.uri && web.title)
FilterSources_UriOnly(chunks) ==
    LET ok(w) == w.uri # << >> IN SelectSeq(chunks, ok)

FilterSources(chunks) ==
    LET ok(w) == w.uri # << >> /\ w.title # << >> IN SelectSeq(chunks, ok)

\* the parts of the googleSearch result message (useZud.ts 292-306)
googleParts_NoFallback(text, srcs) ==
    (IF text # << >> THEN <<TextPart(text)>> ELSE << >>)
    \o (IF Len(srcs) > 0 THEN <<SourcePart(srcs)>> ELSE << >>)

googleParts(text, srcs) ==
    IF text # << >> \/ Len(srcs) > 0
    THEN (IF text # << >> THEN <<TextPart(text)>> ELSE << >>)
         \o (IF Len(srcs) > 0 THEN <<SourcePart(srcs)>> ELSE << >>)
    ELSE <<TextPart(GoogleFallbackText)>>

\* the function result of googleSearch (useZud.ts 301, 305)
googleResult_FallbackOnly(text, srcs) ==
    IF text # << >> THEN text ELSE GoogleFallbackText

googleResult(text, srcs) ==
    IF text # << >> \/ Len(srcs) > 0
    THEN (IF text # << >> THEN text ELSE GoogleFoundText)
    ELSE GoogleFallbackText

\* ---- onmessage (useZud.ts 254-379) ------------------------------------------
\* h is the running handler invocation: the session s whose closure it is, the
\* message m, its arrival number seq, and where it is suspended.
sendToolResponse_OnIssuer(st, fc, resp) ==
    [st EXCEPT !.microQ = Append(@, [Callback("sendToolResponse", fc, resp) EXCEPT !.s = fc.s])]

sendToolResponse(st, fc, resp) ==
    Then(st, Callback("sendToolResponse", fc, resp))

\* function call i of the batch h handles, with the server message it came in
\* (seq), the length of the batch (of) and the session that delivered it (s)
BatchCall(h, i) ==
    [id |-> h.m.calls[i].id, name |-> h.m.calls[i].name, seq |-> h.seq,
     of |-> Len(h.m.calls), s |-> h.s]

\* what the session slot holds, seen from the closure of session s
Slot(st, s) ==
    IF st.sessionPromiseRef = 0 THEN "null"
    ELSE IF st.sessionPromiseRef = s THEN "own" ELSE "other"

\* one entry of the record of the tool dispatch: an invocation started
\* ("invoke", with the slot at that moment), the try/catch of a call left with its functionResponse
\* ("settled", with the outcome of the capability and the slot at that moment),
\* session.sendToolResponse called ("response", with the state of the session)
LogEntry(ev, s, call, resp, on, out) ==
    [ev |-> ev, s |-> s, call |-> call, resp |-> resp, on |-> on, out |-> out]

\* lines 378: the interrupted marker
finishMessage(st, h) ==
    IF h.m.interrupted
    THEN [stopAudioPlayback(st) EXCEPT !.interrupts = @ + 1, !.lastOp = "interrupted"]
    ELSE st

\* lines 340-361: the turnComplete block, then the first half of the audio block
afterCalls(st, h) ==
    LET s == h.s
        a == IF h.m.turnComplete
             THEN LET fullInput == Trim(st.currentInputTranscriptionRef)
                      fullOutput == Trim(st.currentOutputTranscriptionRef)
                      u == IF fullInput # << >>
                           THEN addMessageAt(st, "user",
                                    IF st.session[s].image
                                    THEN <<ImagePart(<< >>), TextPart(fullInput)>>
                                    ELSE <<TextPart(fullInput)>>, s, "turnUser", h.seq, 0)
                           ELSE st
                      v == IF fullOutput # << >>
                           THEN addMessageAt(u, "model", <<TextPart(fullOutput)>>, s,
                                             "turnModel", h.seq, 0)
                           ELSE u
                  IN  [v EXCEPT !.currentInputTranscriptionRef = << >>,
                                !.currentOutputTranscriptionRef = << >>,
                                !.status = "Listening...",
                                !.lastOp = "turnComplete",
                                !.lastTurnMark = h.seq,
                                !.deltas.done = TRUE]
             ELSE st
    IN  IF h.m.audio > 0 /\ a.outputAudioContextRef # 0
        THEN [a EXCEPT !.status = "Speaking...",
                       !.nextStartTimeRef = Max2(@, a.clock),
                       !.handlers = @ \cup {[h EXCEPT !.pc = "decode",
                                                      !.ctx = a.outputAudioContextRef,
                                                      !.arrClock = a.clock,
                                                      !.arrResets = a.resets,
                                                      !.arrInterrupts = a.interrupts]}]
        ELSE finishMessage(a, h)

\* a call no branch of the loop handles (lines 266-322 all skipped):
\* functionResponse stays undefined and is passed to sendToolResponse (332-336)
unknownCall_Message(st, h, i) ==
    LET c == BatchCall(h, i)
        r == Resp("error", ErrorText)
        a == addMessageAt(st, "model", <<TextPart(ErrorText)>>, h.s, "toolError", h.seq, c.id)
        b == [a EXCEPT !.toolLog = Append(@, LogEntry("settled", h.s, c, r, Slot(a, h.s),
                                                      NoOutcome))]
    IN  sendToolResponse(b, c, r)

unknownCall(st, h, i) ==
    LET c == BatchCall(h, i)
        r == Resp("undefined", << >>)
        a == [st EXCEPT !.toolLog = Append(@, LogEntry("settled", h.s, c, r, Slot(st, h.s),
                                                       NoOutcome))]
    IN  sendToolResponse(a, c, r)

\* lines 264-337: the loop over the batch from call i on, up to the next await
RECURSIVE runCalls(_, _, _)
runCalls(st, h, i) ==
    IF i > Len(h.m.calls) THEN afterCalls(st, h)
    ELSE LET fc == h.m.calls[i] IN
         IF \/ (fc.name \in {"generateImage", "googleSearch"} /\ st.aiRef)
            \/ fc.name = "youtubeSearch"
         THEN [st EXCEPT !.handlers = @ \cup {[h EXCEPT !.pc = "tool", !.i = i]},
                         !.toolLog = Append(@, LogEntry("invoke", h.s, BatchCall(h, i),
                                                        NoResp, Slot(st, h.s), NoOutcome))]
         ELSE runCalls(unknownCall(st, h, i), h, i + 1)

\* lines 255-263
onmessageBody_NoNotice(st, s, m) ==
    LET n == st.nServerMsgs + 1
        h == [s |-> s, m |-> m, seq |-> n, pc |-> "run", i |-> 0, ctx |-> 0,
              arrClock |-> 0, arrResets |-> 0, arrInterrupts |-> 0]
        a == [st EXCEPT !.nServerMsgs = n, !.deltas = Received(@, m)]
        b == IF m.hasOut
             THEN [a EXCEPT !.currentOutputTranscriptionRef = @ \o m.outT]
             ELSE IF m.hasIn
                  THEN [a EXCEPT !.currentInputTranscriptionRef = @ \o m.inT]
                  ELSE a
    IN  IF m.calls # << >>
        THEN runCalls([b EXCEPT !.status = "Thinking..."], h, 1)
        ELSE afterCalls(b, h)

onmessageBody(st, s, m) ==
    LET n == st.nServerMsgs + 1
        h == [s |-> s, m |-> m, seq |-> n, pc |-> "run", i |-> 0, ctx |-> 0,
              arrClock |-> 0, arrResets |-> 0, arrInterrupts |-> 0]
        a == [st EXCEPT !.nServerMsgs = n, !.deltas = Received(@, m)]
        b == IF m.hasOut
             THEN [a EXCEPT !.currentOutputTranscriptionRef = @ \o m.outT]
             ELSE IF m.hasIn
                  THEN [a EXCEPT !.currentInputTranscriptionRef = @ \o m.inT]
                  ELSE a
    IN  IF m.calls # << >>
        THEN runCalls([addMessageAt(b, "model", <<TextPart(HandoffText)>>, s, "handoff", n, 0)
                          EXCEPT !.status = "Thinking..."], h, 1)
        ELSE afterCalls(b, h)

\* the catch block of one call (lines 323-330)
toolCatch_Stop(st, h) ==
    LET a == addMessageAt([st EXCEPT !.error = "Error with tool"],
                          "model", <<TextPart(ErrorText)>>, h.s, "toolError", h.seq,
                          h.m.calls[h.i].id)
    IN  [r |-> Resp("error", ErrorText), st |-> stop(a)]

toolCatch_Silent(st, h) ==
    [r |-> Resp("error", ErrorText), st |-> st]

toolCatch(st, h) ==
    [r |-> Resp("error", ErrorText),
     st |-> addMessageAt([st EXCEPT !.error = "Error with tool"],
                         "model", <<TextPart(ErrorText)>>, h.s, "toolError", h.seq,
                         h.m.calls[h.i].id)]

\* the message parts and the result of a youtubeSearch call (lines 309-319)
youtubeAnswer_AlwaysList(videos) ==
    [parts |-> <<TextPart(YouTubeSummaryText), YouTubePart(videos)>>,
     r |-> Resp("result", YouTubeCountText)]

youtubeAnswer(videos) ==
    IF videos > 0
    THEN [parts |-> <<TextPart(YouTubeSummaryText), YouTubePart(videos)>>,
          r |-> Resp("result", YouTubeCountText)]
    ELSE [parts |-> <<TextPart(YouTubeFallbackText)>>,
          r |-> Resp("result", YouTubeFallbackText)]

\* the body of the try block for one call once the capability has answered
\* (lines 267-322), or its catch block
toolResult(st, h, o) ==
    LET fc == h.m.calls[h.i]
        s == h.s
    IN  IF o.kind = "throw"
        THEN toolCatch(st, h)
        ELSE CASE fc.name = "generateImage" ->
                    [r |-> Resp("result", ImageOkText),
                     st |-> addMessageAt(st, "model", <<ImagePart(<<"p">>)>>, s, "image",
                                         h.seq, fc.id)]
               [] fc.name = "googleSearch" ->
                    LET text == Trim(o.text)
                        srcs == FilterSources(o.chunks)
                    IN  [r |-> Resp("result", googleResult(text, srcs)),
                         st |-> addMessageAt(st, "model", googleParts(text, srcs), s, "search",
                                             h.seq, fc.id)]
               [] fc.name = "youtubeSearch" ->
                    LET y == youtubeAnswer(o.videos)
                    IN  [r |-> y.r,
                         st |-> addMessageAt(st, "model", y.parts, s, "videos", h.seq, fc.id)]

\* lines 332-336 after a call, then the rest of the loop
toolResumeBody_NoResponse(st, h, o) ==
    LET a == [st EXCEPT !.handlers = @ \ {h}]
        t == toolResult(a, h, o)
        c == BatchCall(h, h.i)
        b == [t.st EXCEPT !.toolLog = Append(@, LogEntry("settled", h.s, c, t.r,
                                                         Slot(t.st, h.s), o))]
    IN  runCalls(b, h, h.i + 1)

toolResumeBody(st, h, o) ==
    LET a == [st EXCEPT !.handlers = @ \ {h}]
        t == toolResult(a, h, o)
        c == BatchCall(h, h.i)
        b == [t.st EXCEPT !.toolLog = Append(@, LogEntry("settled", h.s, c, t.r,
                                                         Slot(t.st, h.s), o))]
    IN  runCalls(sendToolResponse(b, c, t.r), h, h.i + 1)

\* lines 363-376: decodeAudioData has answered
decodeResumeBody(st, h) ==
    LET a == [st EXCEPT !.handlers = @ \ {h}]
        t0 == a.nextStartTimeRef
        b == [a EXCEPT
                !.sources = @ @@ (h.seq :> [state |-> "scheduled", ctx |-> h.ctx,
                                             tc |-> h.m.turnComplete, end |-> t0 + h.m.audio]),
                !.schedLog = Append(@, [seq |-> h.seq, start |-> t0, end |-> t0 + h.m.audio,
                                        arrClock |-> h.arrClock, arrResets |-> h.arrResets,
                                        arrInterrupts |-> h.arrInterrupts,
                                        startResets |-> a.resets,
                                        startInterrupts |-> a.interrupts]),
                !.nextStartTimeRef = t0 + h.m.audio,
                !.audioSourcesRef = @ \cup {h.seq}]
    IN  finishMessage(b, h)

\* the 'ended' listener of a source (lines 367-372)
endedBody(st, x) ==
    LET left == st.audioSourcesRef \ {x}
        a == [st EXCEPT !.audioSourcesRef = left,
                        !.sources = [y \in DOMAIN @ \ {x} |-> @[y]]]
    IN  IF left = {} /\ ~st.sources[x].tc
        THEN [a EXCEPT !.status = "Listening..."]
        ELSE a

OnMessage(s, msgs, maxMsgs) ==
    /\ Idle
    /\ session[s].state \in {"open", "closing"}
    /\ nServerMsgs < maxMsgs
    /\ \E m \in msgs : Commit(onmessageBody(Op(Cur, "onmessage"), s, m))

ToolResume ==
    /\ Idle
    /\ \E h \in handlers :
         /\ h.pc = "tool"
         /\ \E o \in Outcomes(Cur, h.m.calls[h.i].name) :
              Commit(toolResumeBody(Op(Cur, IF o.kind = "throw" THEN "toolThrow"
                                                ELSE "toolResume"), h, o))

DecodeResume ==
    /\ Idle
    /\ \E h \in handlers :
         /\ h.pc = "decode"
         /\ Commit(decodeResumeBody(Op(Cur, "decodeResume"), h))

Ended ==
    /\ Idle
    /\ \E x \in DOMAIN sources :
         /\ \/ sources[x].state = "stopped"
            \/ /\ sources[x].state = "scheduled"
               /\ sources[x].ctx = outputAudioContextRef
               /\ clock >= sources[x].end
         /\ Commit(Op(endedBody(Cur, x), "ended"))

Tick ==
    /\ Idle
    /\ outputAudioContextRef # 0
    /\ clock < MaxClock
    /\ Commit(Op([Cur EXCEPT !.clock = @ + 1], "tick"))

\* ---- specifications -----------------------------------------------------------
\* The session life cycle and the capture pipeline.
NextSession ==
    \/ Start({FALSE}, MaxSessions)
    \/ Stop
    \/ ToggleMicMute
    \/ \E s \in Sessions : OnOpen(s)
    \/ \E s \in Sessions : MicResume(s)
    \/ \E p \in Sessions : AudioProcess(p)
    \/ \E s \in Sessions : OnError(s)
    \/ \E s \in Sessions : OnClose(s)
    \/ RunReaction

InitKeyed == Init /\ youtubeKey

SpecSession == InitKeyed /\ [][NextSession]_vars

\* The session life cycle and the playback pipeline.
NextPlayback ==
    \/ Start({FALSE}, MaxSessions)
    \/ Stop
    \/ \E s \in Sessions : OnOpen(s)
    \/ \E s \in Sessions : OnMessage(s, AudioMsgs, MaxServerMsgs)
    \/ DecodeResume
    \/ Ended
    \/ Tick
    \/ \E s \in Sessions : OnClose(s)
    \/ RunReaction

SpecPlayback == InitKeyed /\ [][NextPlayback]_vars

\* The session life cycle, transcription and the tool-call dispatcher.
NextDialog ==
    \/ Start(BOOLEAN, MaxDialogSessions)
    \/ Stop
    \/ \E s \in Sessions : OnOpen(s)
    \/ \E s \in Sessions : OnMessage(s, DialogMsgs, MaxServerMsgs)
    \/ ToolResume
    \/ \E s \in Sessions : OnClose(s)
    \/ RunReaction

SpecDialog == Init /\ [][NextDialog]_vars

\* The session life cycle and the transcription of turns.
NextTranscript ==
    \/ Start({FALSE}, MaxDialogSessions)
    \/ Stop
    \/ \E s \in Sessions : OnOpen(s)
    \/ \E s \in Sessions : OnMessage(s, TurnMsgs, MaxTranscriptMsgs)
    \/ \E s \in Sessions : OnClose(s)
    \/ RunReaction

SpecTranscript == InitKeyed /\ [][NextTranscript]_vars

\* App with its conversations, around one live session.
NextApp ==
    \/ Start({FALSE}, MaxDialogSessions)
    \/ Stop
    \/ HandleNewChat
    \/ HandleSelectConversation
    \/ \E s \in Sessions : OnOpen(s)
    \/ \E s \in Sessions : OnMessage(s, AppMsgs, MaxAppMsgs)
    \/ \E s \in Sessions : OnClose(s)
    \/ RunReaction

SpecApp == InitKeyed /\ [][NextApp]_vars

\* A session stopped and another started while a tool invocation is in flight.
NextHandover ==
    \/ Start({FALSE}, MaxSessions)
    \/ Stop
    \/ \E s \in Sessions : OnOpen(s)
    \/ \E s \in Sessions : OnMessage(s, HandoverMsgs, MaxHandoverMsgs)
    \/ ToolResume
    \/ RunReaction

SpecHandover == InitKeyed /\ [][NextHandover]_vars

\* One session: transcription, a tool call and the end of the turn.
NextToolTurn ==
    \/ Start({FALSE}, MaxDialogSessions)
    \/ Stop
    \/ \E s \in Sessions : OnOpen(s)
    \/ \E s \in Sessions : OnMessage(s, ToolTurnMsgs, MaxToolTurnMsgs)
    \/ ToolResume
    \/ \E s \in Sessions : OnClose(s)
    \/ RunReaction

SpecToolTurn == InitKeyed /\ [][NextToolTurn]_vars

\* App around two serial sessions, with a tool call.
NextAppTools ==
    \/ Start(BOOLEAN, MaxSessions)
    \/ Stop
    \/ HandleNewChat
    \/ \E s \in Sessions : OnOpen(s)
    \/ \E s \in Sessions : OnMessage(s, HandoverMsgs, MaxHandoverMsgs)
    \/ ToolResume
    \/ RunReaction

SpecAppTools == InitKeyed /\ [][NextAppTools]_vars

\* The hook variant of src/unnamed/part_001: the session life cycle with its stop().
NextPart001 ==
    \/ Start({FALSE}, MaxSessions)
    \/ StopPart001
    \/ ToggleMicMute
    \/ \E s \in Sessions : OnOpen(s)
    \/ \E s \in Sessions : MicResumePart001(s)
    \/ \E p \in Sessions : AudioProcess(p)
    \/ RunReaction

SpecPart001 == Init /\ [][NextPart001]_vars

\* ---- properties ---------------------------------------------------------------
LiveSessions == { s \in Sessions : session[s].state \in {"connecting", "open"} }

\* C1: at most one remote session is open (connect issued, not yet closed) at
\* any instant, whatever the interleaving of start, stop and the callbacks.
AtMostOneLiveSession == Cardinality(LiveSessions) <= 1

HookFrame == << status, error, messages, currentInputTranscriptionRef,
                currentOutputTranscriptionRef, sessionPromiseRef, nConnects, session,
                aiRef, outputAudioContextRef, isLiveConnected >>

\* C2: start() while isLiveConnected is a no-op: status, error, messages, the
\* transcription buffers and the session slot are unchanged, no connect is issued.
StartWhileConnectedIsNoOp ==
    [][(lastOp' = "start" /\ isLiveConnected) => UNCHANGED HookFrame]_vars

StartedWhileConnected ==
    /\ lastOp = "start"
    /\ isLiveConnected
    /\ messages # << >>
    /\ currentOutputTranscriptionRef # << >>

\* stop() asked for close() of session s and close() has not run yet
TearingDown(s) ==
    /\ session[s].state = "connecting"
    /\ \E i \in DOMAIN session[s].thens : session[s].thens[i].k = "close"

\* C3: between a stop() and the moment the previous session is actually
\* closed, no start() issues a connect.
NoConnectDuringTeardown ==
    [][(nConnects' > nConnects) => ~(\E s \in Sessions : TearingDown(s))]_vars

IdleHook ==
    /\ sessionPromiseRef = 0
    /\ microphoneStreamRef = 0
    /\ scriptProcessorRef = 0
    /\ inputAudioContextRef = 0
    /\ outputAudioContextRef = 0
    /\ status = "Ready"
    /\ error = "null"
    /\ ~isLiveConnected

\* C4: stop() is idempotent: on an idle hook it changes nothing, and two
\* calls in a row leave the state one call leaves.
StopIdempotent ==
    /\ stop(stop(Cur)) = stop(Cur)
    /\ IdleHook => stop(Cur) = Cur

\* stop() has just run on a hook on which no session was ever started
StoppedWhenNeverStarted ==
    /\ lastOp = "stop"
    /\ apiKey
    /\ nConnects = 0
    /\ IdleHook

\* the handlers whose last statement is a call of stop()
StopJustReturned == lastOp \in {"stop", "onclose", "onerror", "micDenied"}

\* C5: right after stop() returns the session slot, the microphone stream,
\* the processor node and both audio contexts are null, no playback source is
\* active, isLiveConnected is false, status is 'Ready' and error is null.
StopReleasesEverything ==
    StopJustReturned =>
        /\ sessionPromiseRef = 0
        /\ microphoneStreamRef = 0
        /\ scriptProcessorRef = 0
        /\ inputAudioContextRef = 0
        /\ outputAudioContextRef = 0
        /\ audioSourcesRef = {}
        /\ ~isLiveConnected
        /\ status = "Ready"
        /\ error = "null"

\* C10: after a device error or a transport error, once the teardown has run,
\* error is a non-null string describing the failure.
ErrorSurvivesTeardown ==
    lastOp \in {"onerror", "micDenied"} => error # "null"

Sends == { i \in DOMAIN realtimeLog : realtimeLog[i].ev = "send" }
Captures == { i \in DOMAIN realtimeLog : realtimeLog[i].ev = "capture" }

\* a frame captured while the mute flag was set is never forwarded, and no
\* frame is forwarded twice
MutedFramesDropped ==
    /\ \A i \in Sends : \A j \in Captures :
          realtimeLog[j].f = realtimeLog[i].f => ~realtimeLog[j].muted
    /\ \A i, j \in Sends : realtimeLog[i].f = realtimeLog[j].f => i = j

\* C6: while the mute flag is set no captured frame is forwarded to the
\* session, and a frame produced while muted is never forwarded later.
NoFrameForwardedWhileMuted ==
    /\ \A i \in Sends : ~realtimeLog[i].muted
    /\ MutedFramesDropped

\* no stop, interruption or new context between the arrival of fragment i and
\* the start of fragment j
SameEpoch(i, j) ==
    /\ schedLog[i].arrResets = schedLog[j].startResets
    /\ schedLog[j].arrResets = schedLog[i].startResets
    /\ schedLog[i].arrResets = schedLog[i].startResets

StartsAfterArrivalClock ==
    \A i \in DOMAIN schedLog : schedLog[i].start >= schedLog[i].arrClock

StartsAfterPreviousEnd ==
    \A i, j \in DOMAIN schedLog :
        (schedLog[i].seq < schedLog[j].seq /\ SameEpoch(i, j))
            => schedLog[j].start >= schedLog[i].end

\* C7: each fragment's scheduled start is >= the scheduled end of the fragment
\* that arrived before it and >= the playback clock at its own arrival.
PlaybackMonotonic == StartsAfterArrivalClock /\ StartsAfterPreviousEnd

\* C8: once an interruption marker has been handled no fragment that arrived
\* before it is started, the active-source set is empty and the scheduling
\* clock is zero.
InterruptionDiscardsAll ==
    /\ \A i \in DOMAIN schedLog : schedLog[i].startInterrupts = schedLog[i].arrInterrupts
    /\ lastOp = "interrupted" => (audioSourcesRef = {} /\ nextStartTimeRef = 0)

\* C9: every message in the session message list has a non-empty parts
\* sequence, and every 'sources' part has at least one item.
MessagesWellFormed ==
    \A i \in DOMAIN messages :
        /\ messages[i].parts # << >>
        /\ \A k \in DOMAIN messages[i].parts :
              messages[i].parts[k].type = "sources" => messages[i].parts[k].items # << >>

\* a search that returned blank text and no usable citation was answered, and
\* a search with a citation was answered, in one session
SearchFallbackAppended ==
    /\ \E i \in DOMAIN messages :
          /\ messages[i].kind = "search"
          /\ messages[i].parts = <<TextPart(GoogleFallbackText)>>
    /\ \E i \in DOMAIN messages : messages[i].kind = "handoff"

\* ---- failure of the microphone set-up (useZud.ts 246-252) ---------------------
\* close() has been called on session s, or a reaction that will call it is
\* registered on its promise.
CloseRequested(s) ==
    \/ session[s].closeCalls > 0
    \/ \E i \in DOMAIN microQ : microQ[i].k = "close" /\ microQ[i].s = s
    \/ \E i \in DOMAIN session[s].thens : session[s].thens[i].k = "close"

NothingReferenced ==
    /\ microphoneStreamRef = 0
    /\ scriptProcessorRef = 0
    /\ inputAudioContextRef = 0
    /\ outputAudioContextRef = 0

\* C11: when the microphone set-up of an opened session fails, the handler
\* leaves isLiveConnected false, close requested on that very session, and no
\* stream, processor or audio context referenced.
MicFailureTearsDown ==
    [][lastOp' = "micDenied" =>
          \A s \in micWait \ micWait' :
              /\ ~isLiveConnected'
              /\ CloseRequested(s)'
              /\ NothingReferenced']_vars

\* ---- tool dispatch ---------------------------------------------------------
\* the number of close() calls made or registered on session s
CloseRequestCount(s) ==
    session[s].closeCalls
    + Cardinality({i \in DOMAIN microQ : microQ[i].k = "close" /\ microQ[i].s = s})
    + Cardinality({i \in DOMAIN session[s].thens : session[s].thens[i].k = "close"})

\* C12: handling a function call whose invocation throws calls neither stop()
\* nor close(): isLiveConnected, the session slot, the sessions and every
\* resource stay as they were (a youtubeSearch without API key included).
ToolFailureKeepsSession ==
    [][lastOp' = "toolThrow" =>
          /\ UNCHANGED <<isLiveConnected, sessionPromiseRef, microphoneStreamRef,
                         scriptProcessorRef, inputAudioContextRef, outputAudioContextRef,
                         openCtx, liveTracks, connectedProcs>>
          /\ \A s \in Sessions :
                /\ CloseRequestCount(s)' = CloseRequestCount(s)
                /\ session'[s].state = session[s].state]_vars

\* the entry of the last call whose awaited invocation has settled
AwaitedSettled == {i \in DOMAIN toolLog : toolLog[i].ev = "settled" /\ toolLog[i].out.kind # "none"}

LastAwaited == toolLog[CHOOSE i \in AwaitedSettled : \A j \in AwaitedSettled : j <= i]

YouTubeFailedWithoutKey ==
    /\ lastOp = "toolThrow"
    /\ ~youtubeKey
    /\ LastAwaited.call.name = "youtubeSearch"
    /\ isLiveConnected
    /\ sessionPromiseRef # 0
    /\ error = "Error with tool"

\* the tool responses for call c: sent, and registered but not yet run
SentResponses(c) ==
    {i \in DOMAIN toolLog : toolLog[i].ev = "response" /\ toolLog[i].call = c}

QueuedResponses(c) ==
    {i \in DOMAIN microQ : microQ[i].k = "sendToolResponse" /\ microQ[i].f = c}

ParkedResponses(c) ==
    UNION { { <<s, i>> : i \in { k \in DOMAIN session[s].thens :
                                     /\ session[s].thens[k].k = "sendToolResponse"
                                     /\ session[s].thens[k].f = c } } : s \in Sessions }

ResponseCount(c) ==
    Cardinality(SentResponses(c)) + Cardinality(QueuedResponses(c))
    + Cardinality(ParkedResponses(c))

ResponsesAre(c, kind) ==
    /\ \A i \in SentResponses(c) : toolLog[i].resp.kind = kind
    /\ \A i \in QueuedResponses(c) : microQ[i].resp.kind = kind

\* the messages appended for call c
MessagesFor(c) ==
    {i \in DOMAIN messages : messages[i].seq = c.seq /\ messages[i].call = c.id}

SettledEntries == {i \in DOMAIN toolLog : toolLog[i].ev = "settled"}

LoneImageFailure(e) ==
    /\ e.call.name = "generateImage"
    /\ e.call.of = 1
    /\ e.out.kind = "throw"

ImageFailureReported(e) ==
    /\ Cardinality(MessagesFor(e.call)) = 1
    /\ \A i \in MessagesFor(e.call) :
          /\ messages[i].speaker = "model"
          /\ messages[i].parts = <<TextPart(ErrorText)>>
    /\ error # "null"

\* C13 as stated: a batch of one generateImage call that throws appends exactly
\* one model message with the error text, sends exactly one tool response, a
\* failure response, and sets error.
ImageFailureAnswered ==
    /\ \A i \in SettledEntries :
          LoneImageFailure(toolLog[i]) =>
             /\ ResponseCount(toolLog[i].call) = 1
             /\ ResponsesAre(toolLog[i].call, "error")
    /\ (lastOp = "toolThrow" /\ LoneImageFailure(LastAwaited)) =>
          ImageFailureReported(LastAwaited)

\* C13 amended: the message and the error come in every case; the one failure
\* response is sent when the slot still holds the session that delivered the
\* call, and none is sent when stop() has emptied the slot in the meantime.
ImageFailureAnsweredWhileSlotHeld ==
    /\ \A i \in SettledEntries :
          LoneImageFailure(toolLog[i]) =>
             /\ toolLog[i].resp.kind = "error"
             /\ toolLog[i].on = "own" =>
                   /\ ResponseCount(toolLog[i].call) = 1
                   /\ ResponsesAre(toolLog[i].call, "error")
                   /\ \A j \in SentResponses(toolLog[i].call) :
                         toolLog[j].s = toolLog[i].call.s
             /\ toolLog[i].on = "null" => ResponseCount(toolLog[i].call) = 0
    /\ (lastOp = "toolThrow" /\ LoneImageFailure(LastAwaited)) =>
          ImageFailureReported(LastAwaited)

ImageFailureResponseSent ==
    \E i \in SettledEntries :
        /\ LoneImageFailure(toolLog[i])
        /\ toolLog[i].on = "own"
        /\ Cardinality(SentResponses(toolLog[i].call)) = 1
        /\ \E j \in DOMAIN messages : messages[j].kind = "toolError"

\* entry j of the tool record starts the handling of a call that has a
\* predecessor in its batch
HasPredecessor(j) ==
    /\ toolLog[j].ev \in {"invoke", "settled"}
    /\ toolLog[j].call.id > 1
    /\ toolLog[j].ev = "settled" => toolLog[j].out.kind = "none"

PredecessorOf(k, j) ==
    /\ toolLog[k].call.seq = toolLog[j].call.seq
    /\ toolLog[k].call.id = toolLog[j].call.id - 1

\* C14 as stated: the calls of a batch are handled in order and the response
\* to each has been sent on its session before the next invocation starts.
ResponseSentBeforeNextCall ==
    \A j \in DOMAIN toolLog :
        HasPredecessor(j) =>
           \E k \in 1..(j - 1) :
               /\ toolLog[k].ev = "response"
               /\ PredecessorOf(k, j)
               /\ toolLog[k].s = toolLog[j].call.s

\* C14 amended: the calls of a batch are handled in order, each started after
\* its predecessor has settled and, while the slot holds the delivering
\* session, after the predecessor's one response has been registered on that
\* session; the registered responses are sent in batch order, never twice, the
\* sending itself being a microtask that runs after the next call has started.
BatchHandledInOrder ==
    /\ \A j \in DOMAIN toolLog :
          HasPredecessor(j) =>
             \E k \in 1..(j - 1) : toolLog[k].ev = "settled" /\ PredecessorOf(k, j)
    /\ \A i \in SettledEntries :
          /\ ResponseCount(toolLog[i].call) <= 1
          /\ toolLog[i].on = "own" =>
                /\ ResponseCount(toolLog[i].call) = 1
                /\ \A j \in SentResponses(toolLog[i].call) :
                      /\ toolLog[j].s = toolLog[i].call.s
                      /\ toolLog[j].resp = toolLog[i].resp
    /\ \A j, k \in DOMAIN toolLog :
          (/\ toolLog[j].ev = "response"
           /\ toolLog[k].ev = "response"
           /\ toolLog[j].call.seq = toolLog[k].call.seq
           /\ toolLog[j].call.id < toolLog[k].call.id) => j < k

BatchOfTwoAnswered ==
    \E j, k \in DOMAIN toolLog :
        /\ j < k
        /\ toolLog[j].ev = "response" /\ toolLog[k].ev = "response"
        /\ toolLog[j].call.seq = toolLog[k].call.seq
        /\ toolLog[j].call.id = 1 /\ toolLog[k].call.id = 2
        /\ toolLog[j].call.name = "generateImage"

UnknownCalls == {i \in SettledEntries : toolLog[i].call.name = "other"}

\* C15 as stated: a call with an unrecognized name appends no message and has
\* no tool response sent for it.
UnknownCallIgnored ==
    \A i \in UnknownCalls :
        /\ MessagesFor(toolLog[i].call) = {}
        /\ ResponseCount(toolLog[i].call) = 0

\* C15 amended: a call with an unrecognized name appends no message, and
\* sendToolResponse is still called for it once, with an undefined response,
\* unless the session slot is empty.
UnknownCallAnsweredUndefined ==
    \A i \in UnknownCalls :
        /\ MessagesFor(toolLog[i].call) = {}
        /\ toolLog[i].resp = Resp("undefined", << >>)
        /\ ResponsesAre(toolLog[i].call, "undefined")
        /\ ResponseCount(toolLog[i].call) = IF toolLog[i].on = "null" THEN 0 ELSE 1

UnknownCallResponseSent ==
    \E i \in UnknownCalls :
        /\ toolLog[i].call.of = 1
        /\ \E j \in SentResponses(toolLog[i].call) : toolLog[j].resp.kind = "undefined"
        /\ Len(messages) = 1
        /\ messages[1].kind = "handoff"

\* the invocation of entry e was started while the slot held its session and
\* settled after stop() had emptied it
StoppedInFlight(e) ==
    /\ e.on = "null"
    /\ \E k \in DOMAIN toolLog :
          /\ toolLog[k].ev = "invoke"
          /\ toolLog[k].call = e.call
          /\ toolLog[k].on = "own"

\* C16: a call that settles, with a result or a failure, after stop() has
\* emptied the slot and before another start() has no tool response sent or
\* registered for it on any session.
NoResponseAfterStop ==
    \A i \in SettledEntries :
        toolLog[i].on = "null" => ResponseCount(toolLog[i].call) = 0

SettledAfterStop ==
    /\ lastOp \in {"toolResume", "toolThrow"}
    /\ StoppedInFlight(LastAwaited)
    /\ status = "Ready"
    /\ ~isLiveConnected

\* C17: the result of an invocation that was in flight when stop() was called
\* is discarded: its completion appends no message and leaves status, error
\* and isLiveConnected as stop() set them.
LateToolResultDiscarded ==
    [][(lastOp' \in {"toolResume", "toolThrow"} /\ StoppedInFlight(LastAwaited)') =>
          UNCHANGED <<messages, status, error, isLiveConnected>>]_vars

\* ---- the status state machine ----------------------------------------------
Conversing == {"Listening...", "Thinking...", "Speaking..."}

TearDownOps == {"stop", "onclose", "onerror", "micDenied"}

\* the documented edges, op being the handler that makes the move; stop() is
\* taken to lead to 'Ready' from every state and start() to leave 'Error' too
DocumentedEdge(a, b, op) ==
    \/ a \in {"Ready", "Error"} /\ b = "Connecting..." /\ op = "start"
    \/ a = "Connecting..." /\ b = "Listening..." /\ op = "onopen"
    \/ a \in Conversing /\ b \in Conversing
    \/ b = "Error" /\ (a = "Connecting..." => op \in {"start", "onerror"})
    \/ b = "Ready" /\ op \in TearDownOps

\* C18: status moves only along the documented edges; it never leaves 'Ready'
\* for listening, thinking or speaking without a start(), and 'Connecting...'
\* becomes 'Error' only when opening fails.
StatusFollowsStateMachine ==
    [][status' # status => DocumentedEdge(status, status', lastOp')]_vars

\* ---- completion of a turn ---------------------------------------------------
\* t without the white space at its two ends
NonSpace(t) == {i \in DOMAIN t : t[i] # " "}

Stripped(t) ==
    IF NonSpace(t) = {} THEN << >>
    ELSE SubSeq(t, CHOOSE i \in NonSpace(t) : \A j \in NonSpace(t) : i <= j,
                   CHOOSE i \in NonSpace(t) : \A j \in NonSpace(t) : j <= i)

\* what the chat shows of a list of messages
Shown(msgs) == [i \in DOMAIN msgs |-> [speaker |-> msgs[i].speaker, parts |-> msgs[i].parts]]

TextMessage(speaker, t) ==
    IF t = << >> THEN << >> ELSE <<[speaker |-> speaker, parts |-> <<TextPart(t)>>]>>

NoVideosFound(e) ==
    /\ e.call.name = "youtubeSearch"
    /\ e.out.kind = "ok"
    /\ e.out.videos = 0

FallbackOnly(c) ==
    \A i \in MessagesFor(c) :
        /\ messages[i].speaker = "model"
        /\ messages[i].parts = <<TextPart(YouTubeFallbackText)>>

\* C20: a youtubeSearch that returns no video appends exactly one message, the
\* fallback text and no 'youtube' part, and the tool response for the call
\* carries the fallback text as its result, not as an error.
EmptyYouTubeSearchFallsBack ==
    /\ \A i \in SettledEntries :
          NoVideosFound(toolLog[i]) =>
             /\ toolLog[i].resp = Resp("result", YouTubeFallbackText)
             /\ Cardinality(MessagesFor(toolLog[i].call)) <= 1
             /\ FallbackOnly(toolLog[i].call)
             /\ \A j \in SentResponses(toolLog[i].call) :
                   toolLog[j].resp = Resp("result", YouTubeFallbackText)
             /\ \A j \in QueuedResponses(toolLog[i].call) :
                   microQ[j].resp = Resp("result", YouTubeFallbackText)
             /\ toolLog[i].on = "own" => ResponseCount(toolLog[i].call) = 1
    /\ (lastOp = "toolResume" /\ NoVideosFound(LastAwaited)) =>
          Cardinality(MessagesFor(LastAwaited.call)) = 1

EmptyYouTubeSearchAnswered ==
    \E i \in SettledEntries :
        /\ NoVideosFound(toolLog[i])
        /\ toolLog[i].on = "own"
        /\ Cardinality(SentResponses(toolLog[i].call)) = 1
        /\ Cardinality(MessagesFor(toolLog[i].call)) = 1

\* ---- googleSearch ---------------------------------------------------------------
SearchAnswered(e) ==
    /\ e.call.name = "googleSearch"
    /\ e.out.kind = "ok"

\* the citations of an answer that have both a URI and a title, in order
Usable(w) == w.uri # << >> /\ w.title # << >>

Citations(chunks) == SelectSeq(chunks, Usable)

ResponsesCarry(c, resp) ==
    /\ \A j \in SentResponses(c) : toolLog[j].resp = resp
    /\ \A j \in QueuedResponses(c) : microQ[j].resp = resp

\* C21 as stated: the result of a successful googleSearch is the answer text
\* when it is not empty and the fixed fallback text in every other case.
SearchResultIsTextOrFallback ==
    \A i \in SettledEntries :
        SearchAnswered(toolLog[i]) =>
           LET text == Stripped(toolLog[i].out.text)
               result == Resp("result", IF text # << >> THEN text ELSE GoogleFallbackText)
           IN  /\ toolLog[i].resp = result
               /\ ResponsesCarry(toolLog[i].call, result)

\* C21 amended: the result is the answer text when it is not empty; without
\* text it is the fixed text 'I found some information for you.' when a usable
\* citation came back, and the fixed fallback text only when none did.
SearchResultIsTextOrFixedText ==
    \A i \in SettledEntries :
        SearchAnswered(toolLog[i]) =>
           LET text == Stripped(toolLog[i].out.text)
               cited == Citations(toolLog[i].out.chunks) # << >>
               result == Resp("result", IF text # << >> THEN text
                                        ELSE IF cited THEN GoogleFoundText
                                        ELSE GoogleFallbackText)
           IN  /\ toolLog[i].resp = result
               /\ ResponsesCarry(toolLog[i].call, result)

CitationsWithoutTextAnswered ==
    \E i \in SettledEntries :
        /\ SearchAnswered(toolLog[i])
        /\ Stripped(toolLog[i].out.text) = << >>
        /\ Citations(toolLog[i].out.chunks) # << >>
        /\ \E j \in SentResponses(toolLog[i].call) :
              toolLog[j].resp = Resp("result", GoogleFoundText)

\* C22: a successful googleSearch appends exactly one message: a text part iff
\* the trimmed answer is not empty, then a sources part iff a citation has
\* both URI and title, holding exactly those citations in order; with neither
\* the message is the fixed fallback text alone.
SearchMessageShape ==
    /\ \A i \in SettledEntries :
          SearchAnswered(toolLog[i]) =>
             LET text == Stripped(toolLog[i].out.text)
                 cites == Citations(toolLog[i].out.chunks)
                 parts == IF text = << >> /\ cites = << >>
                          THEN <<TextPart(GoogleFallbackText)>>
                          ELSE (IF text # << >> THEN <<TextPart(text)>> ELSE << >>)
                               \o (IF cites # << >> THEN <<SourcePart(cites)>> ELSE << >>)
             IN  /\ Cardinality(MessagesFor(toolLog[i].call)) <= 1
                 /\ \A k \in MessagesFor(toolLog[i].call) :
                       /\ messages[k].speaker = "model"
                       /\ messages[k].parts = parts
    /\ (lastOp = "toolResume" /\ SearchAnswered(LastAwaited)) =>
          Cardinality(MessagesFor(LastAwaited.call)) = 1

SearchWithTextAndCitation ==
    /\ lastOp = "toolResume"
    /\ SearchAnswered(LastAwaited)
    /\ \E k \in MessagesFor(LastAwaited.call) :
          messages[k].parts = <<TextPart(<<"r">>), SourcePart(<<GoodChunk>>)>>

\* ---- start() without the API credential ----------------------------------------
\* C23: without the API credential start() issues no connect, stores no
\* session, creates no audio context, leaves isLiveConnected false and reports
\* the failure (error set, status 'Error').
StartWithoutKeyAborts ==
    [][(lastOp' = "start" /\ ~apiKey) =>
          /\ nConnects' = nConnects
          /\ session' = session
          /\ sessionPromiseRef' = 0
          /\ outputAudioContextRef' = 0
          /\ openCtx' = {}
          /\ ~isLiveConnected'
          /\ error' # "null"
          /\ status' = "Error"]_vars

StartFailedForMissingKey ==
    /\ lastOp = "start"
    /\ ~apiKey
    /\ nConnects = 0
    /\ error = "Failed to start session"
    /\ status = "Error"

\* ---- the end of a playback unit ------------------------------------------------
\* the step is the 'ended' event of unit x, which played to its end and was
\* the last of the active set
LastUnitEnded(x) ==
    /\ lastOp' = "ended"
    /\ x \in DOMAIN sources
    /\ x \notin DOMAIN sources'
    /\ sources[x].state = "scheduled"
    /\ x \in audioSourcesRef
    /\ audioSourcesRef' = {}

\* a turn-completion marker has been handled since the audio of unit x arrived
TurnMarkedComplete(x) == lastTurnMark >= x

\* C24: when a playback unit ends naturally and leaves the active set empty,
\* status becomes 'Listening...' if the turn has not been marked complete, and
\* is left as it is if it has.
PlaybackEndRevertsStatus ==
    [][\A x \in 1..MaxServerMsgs :
          LastUnitEnded(x) =>
             IF TurnMarkedComplete(x) THEN status' = status
             ELSE status' = "Listening..."]_vars

\* ---- the leading image -----------------------------------------------------------
ImageOnly == [speaker |-> "user", parts |-> <<ImagePart(<< >>)>>]

\* the step is a start() that issued the connect of a session
Connects == lastOp' = "start" /\ nConnects' = nConnects + 1

\* C25: a start() given a leading image leaves the message list holding
\* exactly one message, a user message with the image part alone, before the
\* session has opened; the image message is never anywhere but first.
LeadingImageFirst ==
    [][/\ (Connects /\ session'[nConnects'].image) =>
             /\ Shown(messages') = <<ImageOnly>>
             /\ session'[nConnects'].state = "connecting"
       /\ (Connects /\ ~session'[nConnects'].image) => messages' = << >>
       /\ \A i \in DOMAIN messages' : messages'[i].kind = "leading" => i = 1]_vars

StartedWithImage ==
    /\ lastOp = "start"
    /\ nConnects = 1
    /\ session[1].image
    /\ session[1].state = "connecting"
    /\ Len(messages) = 1
    /\ messages[1].kind = "leading"

\* ---- App: the end of a live session -----------------------------------------------
HasUserMessage ==
    \E i \in DOMAIN messages : messages[i].speaker = "user"

SavedIn(c) ==
    \A i \in DOMAIN messages :
        \E k \in DOMAIN conversations'[c].messages :
            conversations'[c].messages[k] = messages[i]

\* C26: when the connected flag falls, for whatever reason, and the session's
\* list holds a user message, every message of the list is in the conversation
\* that was current while the session was live.
SessionMessagesSaved ==
    [][(isLiveConnected /\ ~isLiveConnected' /\ currentConversationId # 0 /\ HasUserMessage)
          => SavedIn(currentConversationId)]_vars

\* ---- callbacks of a previous session ---------------------------------------------
\* this step is onclose or onerror of session s
ClosedOrErrored(s) ==
    /\ lastOp' \in {"onclose", "onerror"}
    /\ \/ session[s].state # "closed" /\ session'[s].state = "closed"
       \/ ~session[s].errored /\ session'[s].errored

\* session s was stopped and the slot holds a later session
Superseded(s) ==
    /\ session[s].closeCalls > 0
    /\ sessionPromiseRef \notin {0, s}

\* C27: onclose or onerror of a session that was stopped, arriving after a later
\* session was started, leaves the later session alone: it is not closed, its
\* microphone and audio resources are not released, and status, the connected
\* flag and the messages do not change.
LateCallbackLeavesLaterSession ==
    [][\A s \in Sessions :
          (ClosedOrErrored(s) /\ Superseded(s)) =>
             /\ sessionPromiseRef' = sessionPromiseRef
             /\ microQ' = microQ
             /\ liveTracks' = liveTracks
             /\ openCtx' = openCtx
             /\ connectedProcs' = connectedProcs
             /\ status' = status
             /\ isLiveConnected' = isLiveConnected
             /\ messages' = messages]_vars

\* ---- tool results across sessions ------------------------------------------------
Stopped(s) == session[s].closeCalls > 0

\* the invocation of function call c started while its session held the slot
InvokedWhileCurrent(c) ==
    \E k \in DOMAIN toolLog :
        /\ toolLog[k].ev = "invoke"
        /\ toolLog[k].call = c
        /\ toolLog[k].on = "own"

ResultOf(m) ==
    \E k \in DOMAIN toolLog :
        /\ toolLog[k].call.s = m.by
        /\ toolLog[k].call.seq = m.seq
        /\ toolLog[k].call.id = m.call
        /\ InvokedWhileCurrent(toolLog[k].call)

\* C28: when a session is stopped while one of its tool invocations is in
\* flight, the tool response is sent on that session and on no other, and the
\* tool-result message is in the list only while the list is that session's
\* (no later session has been started).
ToolResultsStayWithIssuer ==
    /\ \A k \in DOMAIN toolLog :
          (/\ toolLog[k].ev = "response"
           /\ Stopped(toolLog[k].call.s)
           /\ InvokedWhileCurrent(toolLog[k].call))
             => toolLog[k].s = toolLog[k].call.s
    /\ \A i \in DOMAIN messages :
          (messages[i].call # 0 /\ Stopped(messages[i].by) /\ ResultOf(messages[i]))
             => messages[i].by = nConnects

\* ---- status of a disconnected hook -----------------------------------------------
\* C29: whenever the connected flag is false and no start() is in progress
\* (the slot holds no session), status is 'Ready' or 'Error'.
DisconnectedStatusIsReadyOrError ==
    (~isLiveConnected /\ sessionPromiseRef = 0) => status \in {"Ready", "Error"}

\* ---- microphone access granted after teardown -------------------------------------
\* C30: when microphone access is granted after stop() has run (the slot is
\* empty and the connected flag is false), the stream acquired late is released:
\* the stream, processor and capture context references are null and no track
\* is live.
LateMicrophoneReleased ==
    [][(lastOp' = "micGranted" /\ sessionPromiseRef = 0 /\ ~isLiveConnected) =>
          /\ microphoneStreamRef' = 0
          /\ scriptProcessorRef' = 0
          /\ inputAudioContextRef' = 0
          /\ liveTracks' = {}]_vars

\* ---- teardown started by the remote side ------------------------------------------
\* C31: onclose or onerror of a session runs stop(): the slot is null and the
\* connected flag false afterwards, close() has been requested on that session
\* at most once, and when it had already been requested (the callback answers
\* that request) it is not requested again.
RemoteTeardownTerminates ==
    [][\A s \in Sessions :
          ClosedOrErrored(s) =>
             /\ sessionPromiseRef' = 0
             /\ ~isLiveConnected'
             /\ CloseRequestCount(s)' <= 1
             /\ (CloseRequestCount(s) = 1 => CloseRequestCount(s)' = 1)]_vars

\* onerror started the teardown, close() was called once, and the onclose that
\* answers it has been handled
ClosedAfterRemoteError ==
    /\ lastOp = "onclose"
    /\ \E s \in Sessions :
          /\ session[s].state = "closed"
          /\ session[s].errored
          /\ session[s].closeCalls = 1

\* ---- order of the messages of a turn --------------------------------------------
\* this step finalizes a turn and appends its user message
UserTurnAppended ==
    /\ lastOp' = "turnComplete"
    /\ \E i \in DOMAIN messages' \ DOMAIN messages : messages'[i].kind = "turnUser"

\* the model messages already in the list that belong to the turn being
\* finalized: they came with a server message after the previous turn boundary
ModelMessagesOfOpenTurn ==
    { j \in DOMAIN messages : messages[j].speaker = "model" /\ messages[j].seq > lastTurnMark }

\* C32: the user message of a turn is appended before every model message
\* produced in answer to it, hand-off notices and tool results included: when
\* the user message is appended, no model message of that turn is in the list.
UserMessageLeadsTurn ==
    [][UserTurnAppended => ModelMessagesOfOpenTurn = {}]_vars

\* ---- every delta reaches the finalized text -------------------------------------
\* C33: the end of a turn appends the user text made of every input delta and
\* the model text made of every output delta received since the last turn
\* boundary, in arrival order (white space at the two ends aside), also when
\* one server message carried a delta of each kind.
EveryDeltaFinalized ==
    [][(lastOp' = "turnComplete" /\ \A s \in Sessions : ~session[s].image) =>
          Shown(messages') =
             Shown(messages)
             \o TextMessage("user", Stripped(deltas'.in))
             \o TextMessage("model", Stripped(deltas'.out))]_vars

\* ---- the hand-off notice ----------------------------------------------------------
\* the hand-off notices in a list that came with server message n
Notices(msgs, n) == {i \in DOMAIN msgs : msgs[i].kind = "handoff" /\ msgs[i].seq = n}

\* this step handles server message n and it carries a tool-call batch
BatchArrives(n) ==
    /\ nServerMsgs = n - 1
    /\ nServerMsgs' = n
    /\ \E k \in DOMAIN toolLog' : toolLog'[k].call.seq = n

\* C34: handling a tool-call batch appends exactly one hand-off notice,
\* whatever the number of calls, ahead of every message the calls of the batch
\* produce, and sets status to 'Thinking...'; no notice is appended otherwise.
OneNoticePerBatch ==
    [][/\ \A n \in 1..MaxServerMsgs :
             BatchArrives(n) =>
                /\ Cardinality(Notices(messages', n)) = 1
                /\ Notices(messages, n) = {}
                /\ \A i \in Notices(messages', n) :
                      \A j \in DOMAIN messages' :
                          (messages'[j].seq = n /\ messages'[j].call # 0) => i < j
                /\ status' = "Thinking..."
       /\ \A i \in DOMAIN messages' :
             messages'[i].kind = "handoff" =>
                /\ Cardinality(Notices(messages', messages'[i].seq)) = 1
                /\ \E k \in DOMAIN toolLog' : toolLog'[k].call.seq = messages'[i].seq]_vars

\* a batch of two calls has been delivered and both calls have settled
NoticeForBatchOfTwo ==
    \E n \in 1..MaxServerMsgs :
        /\ Cardinality(Notices(messages, n)) = 1
        /\ \E k \in DOMAIN toolLog :
              /\ toolLog[k].ev = "settled"
              /\ toolLog[k].call.seq = n
              /\ toolLog[k].call.id = 2
              /\ toolLog[k].call.of = 2

\* ---- the mute flag ------------------------------------------------------------------
\* C35: toggleMicMute flips the mute flag whatever the connection state, and
\* no other operation (start, stop, a session callback) changes it.
MuteFlagOnlyToggled ==
    [][IF lastOp' = "toggleMicMute"
       THEN isMicMuted' = ~isMicMuted
       ELSE isMicMuted' = isMicMuted]_vars

\* muted while idle, then started and opened: the session begins muted
SessionBeginsMuted ==
    /\ lastOp = "onopen"
    /\ nConnects = 1
    /\ isLiveConnected
    /\ isMicMuted

\* ---- the leading image in later turns ------------------------------------------------
HasImage(m) == \E k \in DOMAIN m.parts : m.parts[k].type = "image"

\* C36: the image a session was started with is in exactly one user message,
\* the leading one; a user message finalized at a turn completion holds its
\* text part only.
LeadingImageOnlyOnce ==
    \A i \in DOMAIN messages :
        (messages[i].speaker = "user" /\ HasImage(messages[i]))
           => messages[i].kind = "leading"

\* ---- App: a session is saved once ----------------------------------------------------
\* the messages this step appends to conversation c
Added(c) ==
    SubSeq(conversations'[c].messages, Len(conversations[c].messages) + 1,
           Len(conversations'[c].messages))

\* session s has messages in a stored conversation
Stored(s) ==
    \E c \in ConvIds : \E j \in DOMAIN conversations[c].messages :
        conversations[c].messages[j].by = s

\* C37: the messages of a live session enter the stored conversations in one
\* save only: a step that appends to a conversation appends no message of a
\* session that already has messages stored (nothing is appended twice, and a
\* message that reached the list after the session's save is never stored).
SessionSavedOnce ==
    [][\A c \in ConvIds :
          \A i \in DOMAIN Added(c) : ~Stored(Added(c)[i].by)]_vars

\* ---- stop() of the variant without audio contexts ------------------------------------
\* C38: in the hook variant of part_001, stop() called while neither audio
\* context exists returns without raising an exception and leaves status
\* 'Ready', error null and the connected flag false.
VariantStopWithoutContexts ==
    [][(/\ lastOp' \in {"stop", "stopThrew"}
        /\ inputAudioContextRef = 0
        /\ outputAudioContextRef = 0) =>
          /\ lastOp' = "stop"
          /\ status' = "Ready"
          /\ error' = "null"
          /\ ~isLiveConnected']_vars

====
